---- MODULE Spec2Model ----
(***************************************************************************)
(* The c3 type checker of ppci (ppci/lang/c3/typechecker.py) as a state    *)
(* machine.  The checker is single threaded: a pass walks the modules of   *)
(* the context, the functions of each module, and the statements and       *)
(* expressions of each function body, writing typ / lvalue on the nodes,   *)
(* splicing TypeCast nodes in and sending errors to the diagnostics sink.  *)
(*                                                                         *)
(* Python exceptions are modelled as values: every operator that models a  *)
(* method returns the node as the method left it, the checker state and    *)
(* the exception that left the method (NoExc when it returned).            *)
(***************************************************************************)
EXTENDS Integers, Sequences, FiniteSets, TLC

(***************************************************************************)
(* Bounds of the model.                                                    *)
(***************************************************************************)
MaxModules == 2
MaxFuncs == 2
MaxArgs == 2
MaxOptions == 2
MaxStmts == 3

(***************************************************************************)
(* Types (astnodes: BaseType, PointerType, StructureType, ArrayType and a  *)
(* named reference to a declared type).                                    *)
(***************************************************************************)
BaseType(n) == [k |-> "base", n |-> n]
PointerType(t) == [k |-> "ptr", ptype |-> t]
StructureType(fs) == [k |-> "struct", fields |-> fs]
ArrayType(t) == [k |-> "array", element_type |-> t]
DefinedType(n) == [k |-> "defined", n |-> n]
NoType == [k |-> "unset"]

IntT == BaseType("int")
ByteT == BaseType("byte")
BoolT == BaseType("bool")
DoubleT == BaseType("double")
FloatT == BaseType("float")
StringT == BaseType("string")
VoidT == BaseType("void")
StructT == StructureType([x |-> IntT, q |-> PointerType(IntT)])
OuterT == StructureType([inner |-> StructT, n |-> IntT])
ArrT == ArrayType(IntT)

(***************************************************************************)
(* Exceptions.  cls is the Python class: only SemanticError is caught by   *)
(* the checker; an AssertionError or NotImplementedError leaves the pass.  *)
(***************************************************************************)
NoExc == [cls |-> "none"]
Msg(text, args) == [text |-> text, args |-> args]
SemanticError(msg, loc) == [cls |-> "SemanticError", msg |-> msg, loc |-> loc]
AssertionError == [cls |-> "AssertionError"]
NotImplementedError == [cls |-> "NotImplementedError"]
NoLoc == <<0>>

(***************************************************************************)
(* The type / scope context (ppci/lang/c3/context.py, a collaborator of    *)
(* the checker): the declared types and symbols of the program under       *)
(* check, and the type predicates the checker calls.                       *)
(***************************************************************************)
TypeDefs == [MyInt |-> IntT, MyStruct2 |-> StructT]

Variable(t) == [sym |-> "Variable", typ |-> t]
Constant(t) == [sym |-> "Constant", typ |-> t]
Function(pkg, name, ptypes, ret) ==
    [sym |-> "Function", package |-> pkg, name |-> name,
     typ |-> [parametertypes |-> ptypes, returntype |-> ret]]
ModuleSym == [sym |-> "Module"]

Symbols ==
    [x |-> Variable(IntT), y |-> Variable(IntT), d |-> Variable(DoubleT),
     bt |-> Variable(ByteT), bo |-> Variable(BoolT),
     p |-> Variable(PointerType(IntT)), s |-> Variable(StructT),
     o |-> Variable(OuterT), arr |-> Variable(ArrT),
     mi |-> Variable(DefinedType("MyInt")),
     c |-> Constant(IntT), cs |-> Constant(StructT),
     m |-> ModuleSym,
     f0 |-> Function("m", "f0", <<>>, VoidT),
     f1 |-> Function("m", "f1", <<IntT>>, IntT),
     f2 |-> Function("m", "f2", <<IntT, DoubleT>>, VoidT),
     fs |-> Function("m", "fs", <<>>, StructT)]

ModuleScope == [gx |-> Variable(IntT), gs |-> Variable(StructT), gf |-> Function("m", "gf", <<>>, VoidT)]

\* context.resolve_symbol: the symbol a reference denotes, or a SemanticError
\* for an undefined one.  A reference is an Identifier or a module-qualified
\* Member, whose base must denote a module.
RECURSIVE resolve_symbol(_)
resolve_symbol(ref) ==
    LET undefined == [sym |-> ModuleSym,
                      exc |-> SemanticError(Msg("Undefined symbol", <<>>), ref.loc)]
    IN  IF ref.kind = "Identifier"
        THEN IF ref.target \in DOMAIN Symbols
             THEN [sym |-> Symbols[ref.target], exc |-> NoExc]
             ELSE undefined
        ELSE IF ref.kind = "Member"
        THEN LET base == resolve_symbol(ref.base)
             IN  IF base.exc # NoExc THEN base
                 ELSE IF base.sym.sym # "Module"
                 THEN [sym |-> ModuleSym,
                       exc |-> SemanticError(Msg("Base is not a module", <<>>), ref.loc)]
                 ELSE IF ref.field \in DOMAIN ModuleScope
                 THEN [sym |-> ModuleScope[ref.field], exc |-> NoExc]
                 ELSE undefined
        ELSE undefined

\* context.get_type: a type reference canonicalised.
get_type(t) == IF t.k = "defined" THEN TypeDefs[t.n] ELSE t

\* context.check_type: a SemanticError when the type is ill-formed, that is
\* when it names a type that is not declared.
RECURSIVE WellFormed(_)
WellFormed(t) ==
    CASE t.k = "defined" -> t.n \in DOMAIN TypeDefs
      [] t.k = "ptr" -> WellFormed(t.ptype)
      [] t.k = "array" -> WellFormed(t.element_type)
      [] t.k = "struct" -> \A f \in DOMAIN t.fields : WellFormed(t.fields[f])
      [] OTHER -> TRUE

context_check_type(t, loc) ==
    IF WellFormed(t) THEN NoExc
    ELSE SemanticError(Msg("Undefined type", <<>>), loc)

\* context.equal_types: structural equality after canonicalisation.
RECURSIVE equal_types(_, _)
equal_types(a, b) ==
    LET ta == get_type(a)
        tb == get_type(b)
    IN  IF ta.k # tb.k THEN FALSE
        ELSE CASE ta.k = "base" -> ta.n = tb.n
               [] ta.k = "ptr" -> equal_types(ta.ptype, tb.ptype)
               [] ta.k = "array" -> equal_types(ta.element_type, tb.element_type)
               [] ta.k = "struct" ->
                    /\ DOMAIN ta.fields = DOMAIN tb.fields
                    /\ \A f \in DOMAIN ta.fields :
                          equal_types(ta.fields[f], tb.fields[f])
               [] OTHER -> FALSE

\* context.is_simple_type: a base type or a pointer.
is_simple_type(t) == get_type(t).k \in {"base", "ptr"}

\* context.get_common_type: the promoted type of two checked operands, or a
\* SemanticError when the two do not combine.
get_common_type(a, b) ==
    LET ta == get_type(a.typ)
        tb == get_type(b.typ)
        num == {"int", "byte", "double", "float"}
        fail == [typ |-> NoType,
                 exc |-> SemanticError(Msg("Types do not commute", <<>>), a.loc)]
        ok(t) == [typ |-> t, exc |-> NoExc]
    IN  IF ta.k = "ptr" /\ tb.k = "base" /\ tb.n = "int" THEN ok(ta)
        ELSE IF ta.k # "base" \/ tb.k # "base" THEN fail
        ELSE IF ta.n \notin num \/ tb.n \notin num THEN fail
        ELSE IF ta.n = tb.n THEN ok(ta)
        ELSE IF {ta.n, tb.n} = {"int", "byte"} THEN ok(IntT)
        ELSE IF {ta.n, tb.n} = {"int", "double"} THEN ok(DoubleT)
        ELSE IF {ta.n, tb.n} = {"float", "double"} THEN ok(DoubleT)
        ELSE fail

(***************************************************************************)
(* The syntax tree (astnodes).  The parser makes the nodes; typ and lvalue *)
(* of an expression are written by the checker only.  loc is the node's    *)
(* source location, distinct for every node the parser made.               *)
(***************************************************************************)
Unset == "unset"
True == "True"
False == "False"

NoneNode == [kind |-> "None"]
Literal(pytype) ==
    [kind |-> "Literal", val |-> pytype, loc |-> NoLoc, typ |-> NoType, lvalue |-> Unset]
Identifier(target) ==
    [kind |-> "Identifier", target |-> target, loc |-> NoLoc, typ |-> NoType, lvalue |-> Unset]
Binop(a, op, b) ==
    [kind |-> "Binop", a |-> a, op |-> op, b |-> b, loc |-> NoLoc, typ |-> NoType, lvalue |-> Unset]
Unop(op, a) ==
    [kind |-> "Unop", op |-> op, a |-> a, loc |-> NoLoc, typ |-> NoType, lvalue |-> Unset]
Deref(ptr) ==
    [kind |-> "Deref", ptr |-> ptr, loc |-> NoLoc, typ |-> NoType, lvalue |-> Unset]
Member(base, field) ==
    [kind |-> "Member", base |-> base, field |-> field, loc |-> NoLoc, typ |-> NoType, lvalue |-> Unset]
Index(base, i) ==
    [kind |-> "Index", base |-> base, i |-> i, loc |-> NoLoc, typ |-> NoType, lvalue |-> Unset]
TypeCast(to_type, a, loc) ==
    [kind |-> "TypeCast", to_type |-> to_type, a |-> a, loc |-> loc, typ |-> NoType, lvalue |-> Unset]
Sizeof(query_typ) ==
    [kind |-> "Sizeof", query_typ |-> query_typ, loc |-> NoLoc, typ |-> NoType, lvalue |-> Unset]
FunctionCall(proc, args) ==
    [kind |-> "FunctionCall", proc |-> Identifier(proc), args |-> args,
     loc |-> NoLoc, typ |-> NoType, lvalue |-> Unset]

Compound(statements) == [kind |-> "Compound", statements |-> statements, loc |-> NoLoc]
Empty == [kind |-> "Empty", loc |-> NoLoc]
Assignment(lval, rval) == [kind |-> "Assignment", lval |-> lval, rval |-> rval, loc |-> NoLoc]
ExpressionStatement(ex) == [kind |-> "ExpressionStatement", ex |-> ex, loc |-> NoLoc]
If(condition, truestatement, falsestatement) ==
    [kind |-> "If", condition |-> condition, truestatement |-> truestatement,
     falsestatement |-> falsestatement, loc |-> NoLoc]
Return(expr) == [kind |-> "Return", expr |-> expr, loc |-> NoLoc]
While(condition, statement) ==
    [kind |-> "While", condition |-> condition, statement |-> statement, loc |-> NoLoc]
For(init, condition, statement, final) ==
    [kind |-> "For", init |-> init, condition |-> condition, statement |-> statement,
     final |-> final, loc |-> NoLoc]
Option(val, code) == [val |-> val, code |-> code]
Switch(expression, options) ==
    [kind |-> "Switch", expression |-> expression, options |-> options, loc |-> NoLoc]

\* Binop.cond_ops and Unop.cond_ops of astnodes, and the operators
\* check_binop accepts.
BinopCondOps == {"and", "or", "==", "<", ">", ">=", "<=", "!="}
UnopCondOps == {"not"}
ArithOps == {"+", "-", "*", "/", "%", "<<", ">>", "|", "&", "^"}

\* The parser's locations: the path of the node from the root.
RECURSIVE Located(_, _)
Located(n, loc) ==
    LET sub(f, i) == Located(n[f], Append(loc, i))
    IN  CASE n.kind = "None" -> n
          [] n.kind \in {"Literal", "Identifier", "Sizeof", "Empty"} -> [n EXCEPT !.loc = loc]
          [] n.kind = "Binop" -> [n EXCEPT !.loc = loc, !.a = sub("a", 1), !.b = sub("b", 2)]
          [] n.kind \in {"Unop", "TypeCast"} -> [n EXCEPT !.loc = loc, !.a = sub("a", 1)]
          [] n.kind = "Deref" -> [n EXCEPT !.loc = loc, !.ptr = sub("ptr", 1)]
          [] n.kind = "Member" -> [n EXCEPT !.loc = loc, !.base = sub("base", 1)]
          [] n.kind = "Index" -> [n EXCEPT !.loc = loc, !.base = sub("base", 1), !.i = sub("i", 2)]
          [] n.kind = "FunctionCall" ->
               [n EXCEPT !.loc = loc, !.proc = sub("proc", 0),
                         !.args = [j \in DOMAIN n.args |-> Located(n.args[j], Append(loc, j))]]
          [] n.kind = "Compound" ->
               [n EXCEPT !.loc = loc,
                         !.statements = [j \in DOMAIN n.statements |->
                                            Located(n.statements[j], Append(loc, j))]]
          [] n.kind = "Assignment" ->
               [n EXCEPT !.loc = loc, !.lval = sub("lval", 1), !.rval = sub("rval", 2)]
          [] n.kind = "ExpressionStatement" -> [n EXCEPT !.loc = loc, !.ex = sub("ex", 1)]
          [] n.kind = "If" ->
               [n EXCEPT !.loc = loc, !.condition = sub("condition", 1),
                         !.truestatement = sub("truestatement", 2),
                         !.falsestatement = sub("falsestatement", 3)]
          [] n.kind = "Return" -> [n EXCEPT !.loc = loc, !.expr = sub("expr", 1)]
          [] n.kind = "While" ->
               [n EXCEPT !.loc = loc, !.condition = sub("condition", 1),
                         !.statement = sub("statement", 2)]
          [] n.kind = "For" ->
               [n EXCEPT !.loc = loc, !.init = sub("init", 1),
                         !.condition = sub("condition", 2),
                         !.statement = sub("statement", 3), !.final = sub("final", 4)]
          [] n.kind = "Switch" ->
               [n EXCEPT !.loc = loc, !.expression = sub("expression", 1),
                         !.options = [j \in DOMAIN n.options |->
                              [val |-> Located(n.options[j].val, Append(Append(loc, j + 1), 1)),
                               code |-> Located(n.options[j].code, Append(Append(loc, j + 1), 2))]]]

(***************************************************************************)
(* The checker.  st is the state a method works on besides the tree: the   *)
(* diagnostics sink (diag), the validity flag of the module under check    *)
(* (module_ok) and, as a history of the run, the calls of check_stmt and   *)
(* check_expr made so far (calls).                                         *)
(***************************************************************************)
Ret(e, st) == [e |-> e, st |-> st, exc |-> NoExc]
Raise(e, st, exc) == [e |-> e, st |-> st, exc |-> exc]
Called(st, fn, node) == [st EXCEPT !.calls = Append(@, [fn |-> fn, loc |-> node.loc])]

\* A method body is a sequence of steps on a frame F: the node under check
\* as it stands (e), the state (st) and the exception raised so far (exc).
\* A step of a failed frame does nothing: the exception has left the method.
Failed(F) == F.exc # NoExc
Fail(F, exc) == [F EXCEPT !.exc = exc]
\* The frame after a call that checked the child F.e[field] with result r.
Sub(F, field, r) == [e |-> [F.e EXCEPT ![field] = r.e], st |-> r.st, exc |-> r.exc]
\* The frame after child = do_coerce(child, ...) with result c: the child is
\* replaced when the call returns, and is left as mutated when it raises.
Coerced(F, field, c) ==
    [e |-> [F.e EXCEPT ![field] = IF c.exc = NoExc THEN c.e ELSE c.orig],
     st |-> c.st, exc |-> c.exc]

\* TypeChecker.error with the module flag left alone.
ErrorKeepsFlag(st, msg, loc) ==
    [st EXCEPT !.diag = Append(@, [msg |-> msg, loc |-> loc])]

\* TypeChecker.error: mark the module invalid and emit to the sink.
error(st, msg, loc) ==
    [st EXCEPT !.module_ok = FALSE, !.diag = Append(@, [msg |-> msg, loc |-> loc])]

\* TypeChecker.check_type
check_type(typ, loc) == context_check_type(typ, loc)

\* TypeChecker.is_bool
is_bool(expr) ==
    \/ expr.kind = "Binop" /\ expr.op \in BinopCondOps
    \/ expr.kind = "Unop" /\ expr.op \in UnopCondOps

\* do_coerce with the rules read in both directions.
CoerceEitherWay(et, typ) ==
    IF equal_types(et, typ) THEN "same"
    ELSE IF et.k = "ptr" /\ typ.k = "ptr" THEN "cast"
    ELSE IF {et, typ} \in {{IntT, ByteT}, {IntT, DoubleT}, {DoubleT, FloatT}} THEN "cast"
    ELSE IF equal_types(IntT, et) /\ typ.k = "ptr" THEN "cast"
    ELSE IF equal_types(IntT, typ) /\ et.k = "ptr" THEN "cast"
    ELSE "fail"

\* The branch do_coerce takes for an expression of type et and a wanted
\* type typ: "same" (no cast required), "cast" or "fail".
coerce_rule(et, typ) ==
    IF equal_types(et, typ) THEN "same"
    ELSE IF et.k = "ptr" /\ typ.k = "ptr" THEN "cast"
    ELSE IF equal_types(IntT, et) /\ typ.k = "ptr" THEN "cast"
    ELSE IF equal_types(IntT, et) /\ equal_types(ByteT, typ) THEN "cast"
    ELSE IF equal_types(IntT, et) /\ equal_types(DoubleT, typ) THEN "cast"
    ELSE IF equal_types(DoubleT, et) /\ equal_types(FloatT, typ) THEN "cast"
    ELSE IF equal_types(FloatT, et) /\ equal_types(DoubleT, typ) THEN "cast"
    ELSE IF equal_types(ByteT, et) /\ equal_types(IntT, typ) THEN "cast"
    ELSE "fail"

\* TypeChecker.is_module_ref
RECURSIVE is_module_ref(_)
is_module_ref(expr) ==
    IF expr.kind = "Member"
    THEN IF expr.base.kind = "Identifier"
         THEN LET target == resolve_symbol(expr.base)
              IN  [val |-> target.exc = NoExc /\ target.sym.sym = "Module",
                   exc |-> target.exc]
         ELSE is_module_ref(expr.base)
    ELSE [val |-> FALSE, exc |-> NoExc]

\* TypeChecker.check_literal_expr
LiteralTypemap == [int |-> IntT, float |-> DoubleT, bool |-> BoolT, str |-> StringT]

check_literal_expr(expr, st) ==
    LET e1 == [expr EXCEPT !.lvalue = False]
    IN  IF expr.val \in DOMAIN LiteralTypemap
        THEN Ret([e1 EXCEPT !.typ = LiteralTypemap[expr.val]], st)
        ELSE Raise(e1, st, SemanticError(Msg("Unknown literal type", <<>>), expr.loc))

\* TypeChecker.check_identifier
check_identifier(expr, st) ==
    LET target == resolve_symbol(expr)
    IN  IF target.exc # NoExc THEN Raise(expr, st, target.exc)
        ELSE IF target.sym.sym = "Variable"
        THEN Ret([expr EXCEPT !.lvalue = True, !.typ = target.sym.typ], st)
        ELSE IF target.sym.sym = "Constant"
        THEN Ret([expr EXCEPT !.lvalue = False, !.typ = target.sym.typ], st)
        ELSE Raise(expr, st, SemanticError(Msg("Cannot use in expression", <<>>), expr.loc))

\* TypeChecker.check_sizeof
check_sizeof(expr, st) ==
    Raise([expr EXCEPT !.lvalue = False, !.typ = IntT], st,
          check_type(expr.query_typ, expr.loc))

RECURSIVE check_expr(_, _, _), check_condition(_, _), check_function_call(_, _),
          do_coerce(_, _, _), check_stmt(_, _)

\* self.check_expr(F.e[field], rvalue) as a step of a method.
CheckChild(F, field, rvalue) ==
    IF Failed(F) THEN F ELSE Sub(F, field, check_expr(F.e[field], rvalue, F.st))

\* self.check_condition(F.e[field]) as a step of a method.
CheckCondChild(F, field) ==
    IF Failed(F) THEN F ELSE Sub(F, field, check_condition(F.e[field], F.st))

\* self.check_stmt(F.e[field]) as a step of a method.
CheckStmtChild(F, field) ==
    IF Failed(F) THEN F ELSE Sub(F, field, check_stmt(F.e[field], F.st))

\* F.e[field] = self.do_coerce(F.e[field], typ) as a step of a method.
CoerceChild(F, field, typ) ==
    IF Failed(F) THEN F ELSE Coerced(F, field, do_coerce(F.e[field], typ, F.st))

\* The end of do_coerce: the expression, wrapped in a cast or not, is
\* checked again.  e is the node returned (the node do_coerce was working
\* on when it raises), orig the node that was passed in as the call left
\* it: the pass mutates nodes in place, so a caller that gets no result
\* still holds the mutated argument.
coerce_result(rule, r) ==
    [e |-> r.e, orig |-> IF rule = "same" THEN r.e ELSE r.e.a, st |-> r.st, exc |-> r.exc]

coerce_by(rule, expr, typ, st) ==
    IF rule = "fail"
    THEN [e |-> expr, orig |-> expr, st |-> st,
          exc |-> SemanticError(Msg("Cannot use as", <<>>), expr.loc)]
    ELSE coerce_result(rule, check_expr(IF rule = "same" THEN expr
                                        ELSE TypeCast(typ, expr, expr.loc), FALSE, st))

\* TypeChecker.do_coerce
do_coerce(expr, typ, st) == coerce_by(coerce_rule(expr.typ, typ), expr, typ, st)

\* check_condition: the typ a boolean operation gets.
condition_typed(F) == IF Failed(F) THEN F ELSE Ret([F.e EXCEPT !.typ = BoolT], F.st)

\* check_condition: b is coerced to the type of a in a comparison.
condition_coerce_b(F) == IF Failed(F) THEN F ELSE CoerceChild(F, "b", F.e.a.typ)

\* check_condition: the test that the condition is a boolean value, which
\* reports and goes on.
condition_is_bool(F) ==
    IF Failed(F) THEN F
    ELSE IF ~equal_types(F.e.typ, BoolT)
    THEN Ret(F.e, error(F.st, Msg("Condition must be boolean", <<>>), F.e.loc))
    ELSE F

\* TypeChecker.check_condition
check_condition(expr, st) ==
    condition_is_bool(
        IF expr.kind = "Binop"
        THEN IF expr.op \in {"and", "or"}
             THEN condition_typed(CheckCondChild(CheckCondChild(Ret(expr, st), "a"), "b"))
             ELSE IF expr.op \in {"==", ">", "<", "!=", "<=", ">="}
             THEN condition_typed(condition_coerce_b(
                      CheckChild(CheckChild(Ret(expr, st), "a", TRUE), "b", TRUE)))
             ELSE Raise(expr, st, SemanticError(Msg("non-bool", <<>>), expr.loc))
        ELSE IF expr.kind = "Literal" THEN check_expr(expr, FALSE, st)
        ELSE IF expr.kind = "Unop" /\ expr.op = "not"
        THEN condition_typed(CheckCondChild(Ret(expr, st), "a"))
        ELSE check_expr(expr, TRUE, st))

\* TypeChecker.check_bool_expr
bool_expr_result(F) == IF Failed(F) THEN F ELSE Ret([F.e EXCEPT !.lvalue = False], F.st)

check_bool_expr(expr, st) == bool_expr_result(check_condition(expr, st))

\* TypeChecker.check_dereference
dereference_result(F) ==
    IF Failed(F) THEN F
    ELSE LET e2 == [F.e EXCEPT !.lvalue = True]
             ptr_typ == get_type(e2.ptr.typ)
         IN  IF ptr_typ.k # "ptr"
             THEN Raise(e2, F.st, SemanticError(Msg("Cannot deref", <<>>), e2.loc))
             ELSE Ret([e2 EXCEPT !.typ = ptr_typ.ptype], F.st)

check_dereference(expr, st) == dereference_result(CheckChild(Ret(expr, st), "ptr", TRUE))

\* TypeChecker.check_unop
unop_address_result(F) ==
    IF Failed(F) THEN F
    ELSE IF F.e.a.lvalue # True
    THEN Fail(F, SemanticError(Msg("No valid lvalue", <<>>), F.e.a.loc))
    ELSE Ret([F.e EXCEPT !.typ = PointerType(F.e.a.typ), !.lvalue = False], F.st)

unop_sign_result(F) ==
    IF Failed(F) THEN F ELSE Ret([F.e EXCEPT !.typ = F.e.a.typ, !.lvalue = False], F.st)

check_unop(expr, st) ==
    IF expr.op = "&" THEN unop_address_result(CheckChild(Ret(expr, st), "a", FALSE))
    ELSE IF expr.op \in {"+", "-"} THEN unop_sign_result(CheckChild(Ret(expr, st), "a", TRUE))
    ELSE Raise(expr, st, NotImplementedError)

\* TypeChecker.check_binop
binop_common_type(F) ==
    IF Failed(F) THEN F
    ELSE LET common_type == get_common_type(F.e.a, F.e.b)
         IN  IF common_type.exc # NoExc THEN Fail(F, common_type.exc)
             ELSE IF F.e.op \notin ArithOps
             THEN Raise([F.e EXCEPT !.typ = common_type.typ], F.st,
                        SemanticError(Msg("Cannot use", <<>>), NoLoc))
             ELSE Ret([F.e EXCEPT !.typ = common_type.typ], F.st)

binop_coerce(F, field) == IF Failed(F) THEN F ELSE CoerceChild(F, field, F.e.typ)

check_binop(expr, st) ==
    binop_coerce(binop_coerce(binop_common_type(
        CheckChild(CheckChild(Ret([expr EXCEPT !.lvalue = False], st), "a", TRUE), "b", TRUE)),
        "a"), "b")

\* TypeChecker.check_member_expr
member_module_ref(expr, st) ==
    LET target == resolve_symbol(expr)
    IN  IF target.exc # NoExc THEN Raise(expr, st, target.exc)
        ELSE IF target.sym.sym = "Variable"
        THEN Ret([expr EXCEPT !.lvalue = True, !.typ = target.sym.typ], st)
        ELSE Raise(expr, st, NotImplementedError)

member_struct(F) ==
    IF Failed(F) THEN F
    ELSE LET e2 == [F.e EXCEPT !.lvalue = F.e.base.lvalue]
             basetype == get_type(e2.base.typ)
             e3 == [e2 EXCEPT !.typ = basetype.fields[e2.field]]
         IN  IF basetype.k # "struct"
             THEN Raise(e2, F.st,
                        SemanticError(Msg("Cannot select of non-structure type", <<>>), e2.loc))
             ELSE IF check_type(basetype, NoLoc) # NoExc
             THEN Raise(e2, F.st, check_type(basetype, NoLoc))
             ELSE IF e2.field \notin DOMAIN basetype.fields
             THEN Raise(e2, F.st, SemanticError(Msg("does not contain field", <<>>), e2.loc))
             ELSE IF e3.lvalue # True THEN Raise(e3, F.st, AssertionError)
             ELSE Ret(e3, F.st)

check_member_expr(expr, st) ==
    LET modref == is_module_ref(expr)
    IN  IF modref.exc # NoExc THEN Raise(expr, st, modref.exc)
        ELSE IF modref.val THEN member_module_ref(expr, st)
        ELSE member_struct(CheckChild(Ret(expr, st), "base", FALSE))

\* TypeChecker.check_index_expr
index_is_array(F) ==
    IF Failed(F) THEN F
    ELSE IF get_type(F.e.base.typ).k # "array"
    THEN Fail(F, SemanticError(Msg("Cannot index non-array type", <<>>), F.e.base.loc))
    ELSE F

index_result(F) ==
    IF Failed(F) THEN F
    ELSE IF F.e.base.lvalue # True THEN Fail(F, AssertionError)
    ELSE Ret([F.e EXCEPT !.typ = get_type(F.e.base.typ).element_type, !.lvalue = True], F.st)

check_index_expr(expr, st) ==
    index_result(CoerceChild(index_is_array(
        CheckChild(CheckChild(Ret(expr, st), "base", FALSE), "i", TRUE)), "i", IntT))

\* TypeChecker.check_type_cast
type_cast_result(F) ==
    IF Failed(F) THEN F ELSE Ret([F.e EXCEPT !.lvalue = False, !.typ = F.e.to_type], F.st)

check_type_cast(expr, st) == type_cast_result(CheckChild(Ret(expr, st), "a", TRUE))

\* The rvalue materialisation at the end of check_expr, without the write
\* of lvalue.
MaterializeKeepsLvalue(r) ==
    IF get_type(r.e.typ).k \notin {"ptr", "base"}
    THEN Raise(r.e, r.st, SemanticError(Msg("Cannot deref", <<>>), r.e.loc))
    ELSE r

\* The rvalue materialisation at the end of check_expr: an lvalue of
\* pointer or base type becomes an rvalue.
Materialize(r) ==
    IF get_type(r.e.typ).k \notin {"ptr", "base"}
    THEN Raise(r.e, r.st, SemanticError(Msg("Cannot deref", <<>>), r.e.loc))
    ELSE Ret([r.e EXCEPT !.lvalue = False], r.st)

\* check_expr: the rule of the expression's kind.
check_expr_kind(expr, st) ==
    IF is_bool(expr) THEN check_bool_expr(expr, st)
    ELSE CASE expr.kind = "Binop" -> check_binop(expr, st)
           [] expr.kind = "Unop" -> check_unop(expr, st)
           [] expr.kind = "Identifier" -> check_identifier(expr, st)
           [] expr.kind = "Deref" -> check_dereference(expr, st)
           [] expr.kind = "Member" -> check_member_expr(expr, st)
           [] expr.kind = "Index" -> check_index_expr(expr, st)
           [] expr.kind = "Literal" -> check_literal_expr(expr, st)
           [] expr.kind = "TypeCast" -> check_type_cast(expr, st)
           [] expr.kind = "Sizeof" -> check_sizeof(expr, st)
           [] expr.kind = "FunctionCall" -> check_function_call(expr, st)
           [] OTHER -> Raise(expr, st, NotImplementedError)

\* check_expr: the rvalue trick after the rule of the kind.
rvalue_trick(r, rvalue) ==
    IF r.exc # NoExc THEN r
    ELSE IF rvalue /\ r.e.lvalue = True THEN Materialize(r)
    ELSE r

\* TypeChecker.check_expr
check_expr(expr, rvalue, st) ==
    rvalue_trick(check_expr_kind(expr, Called(st, "check_expr", expr)), rvalue)

\* The argument loop of check_function_call.  A is the loop's frame: the
\* argument nodes as they stand (args), the coerced ones so far (new_args),
\* the state and the exception; zip stops at the shorter of the two lists.  args_coerced is the turn of argument i
\* after its check with result r, args_next the rest of the loop after its
\* coercion with result c.
RECURSIVE check_args(_, _, _), args_coerced(_, _, _, _), args_next(_, _, _, _)
check_args(A, ptypes, i) ==
    IF i > Len(A.args) \/ i > Len(ptypes) THEN A
    ELSE args_coerced(A, ptypes, i, check_expr(A.args[i], TRUE, A.st))

args_coerced(A, ptypes, i, r) ==
    IF r.exc # NoExc
    THEN [A EXCEPT !.args[i] = r.e, !.st = r.st, !.exc = r.exc]
    ELSE args_next(A, ptypes, i, do_coerce(r.e, ptypes[i], r.st))

args_next(A, ptypes, i, c) ==
    IF c.exc # NoExc
    THEN [A EXCEPT !.args[i] = c.orig, !.st = c.st, !.exc = c.exc]
    ELSE check_args([A EXCEPT !.args[i] = c.orig, !.new_args = Append(@, c.e), !.st = c.st],
                    ptypes, i + 1)

\* The arity test of check_function_call, comparing nothing.
ArityUnchecked(nargs, nparams) == FALSE

\* The arity test of check_function_call.
ArityMismatch(nargs, nparams) == nargs # nparams

\* check_function_call after the argument loop with frame A.
call_result(expr, ftyp, A) ==
    IF A.exc # NoExc THEN Raise([expr EXCEPT !.args = A.args], A.st, A.exc)
    ELSE IF ~is_simple_type(ftyp.returntype)
    THEN Raise([expr EXCEPT !.args = A.new_args, !.typ = ftyp.returntype, !.lvalue = False],
               A.st,
               SemanticError(Msg("Return value can only be a simple type", <<>>), expr.loc))
    ELSE Ret([expr EXCEPT !.args = A.new_args, !.typ = ftyp.returntype, !.lvalue = False],
             A.st)

\* TypeChecker.check_function_call
check_function_call(expr, st) ==
    LET target_func == resolve_symbol(expr.proc)
        ftyp == target_func.sym.typ
    IN  IF target_func.exc # NoExc THEN Raise(expr, st, target_func.exc)
        ELSE IF target_func.sym.sym # "Function"
        THEN Raise(expr, st, SemanticError(Msg("cannot call", <<>>), expr.loc))
        ELSE IF ArityMismatch(Len(expr.args), Len(ftyp.parametertypes))
        THEN Raise(expr, st,
                   SemanticError(Msg("requires arguments, given",
                                     <<Len(ftyp.parametertypes), Len(expr.args)>>),
                                 expr.loc))
        ELSE call_result(expr, ftyp,
                         check_args([args |-> expr.args, new_args |-> <<>>, st |-> st,
                                     exc |-> NoExc],
                                    ftyp.parametertypes, 1))

(***************************************************************************)
(* Statements.                                                             *)
(***************************************************************************)
\* check_stmt with no except clause: the exception leaves the method.
Uncaught(r) == r

\* The except clause of check_stmt: a SemanticError is reported and the
\* method returns; any other exception leaves it.
except_SemanticError(r) ==
    IF r.exc.cls = "SemanticError"
    THEN Ret(r.e, error(r.st, r.exc.msg, r.exc.loc))
    ELSE r

\* TypeChecker.check_return_stmt
check_return_stmt(code, st) ==
    IF code.expr # NoneNode THEN CheckChild(Ret(code, st), "expr", TRUE)
    ELSE Ret(code, st)

\* The checks of check_assignment_stmt on the checked left hand side, with
\* the lvalue test left out.
LhsSimpleOnly(code) ==
    IF ~is_simple_type(code.lval.typ)
    THEN SemanticError(Msg("Cannot assign to complex type", <<>>), code.loc)
    ELSE NoExc

\* The checks of check_assignment_stmt on the checked left hand side: a
\* simple type, and an lvalue.
LhsChecks(code) ==
    IF ~is_simple_type(code.lval.typ)
    THEN SemanticError(Msg("Cannot assign to complex type", <<>>), code.loc)
    ELSE IF code.lval.lvalue # True
    THEN SemanticError(Msg("No valid lvalue", <<>>), code.lval.loc)
    ELSE NoExc

assignment_lhs(F) == IF Failed(F) THEN F ELSE Fail(F, LhsChecks(F.e))

assignment_coerce(F) == IF Failed(F) THEN F ELSE CoerceChild(F, "rval", F.e.lval.typ)

\* TypeChecker.check_assignment_stmt
check_assignment_stmt(code, st) ==
    assignment_coerce(CheckChild(assignment_lhs(CheckChild(Ret(code, st), "lval", FALSE)),
                                 "rval", TRUE))

\* The loop of check_stmt over the statements of a Compound: from
\* statement i on, and after the check of statement i with result r.
RECURSIVE check_statements(_, _, _), statements_next(_, _, _)
check_statements(code, i, st) ==
    IF i > Len(code.statements) THEN Ret(code, st)
    ELSE statements_next(code, i, check_stmt(code.statements[i], st))

statements_next(code, i, r) ==
    IF r.exc # NoExc THEN Raise([code EXCEPT !.statements[i] = r.e], r.st, r.exc)
    ELSE check_statements([code EXCEPT !.statements[i] = r.e], i + 1, r.st)

\* TypeChecker.check_if_stmt
check_if_stmt(code, st) ==
    CheckStmtChild(CheckStmtChild(CheckCondChild(Ret(code, st), "condition"),
                                  "truestatement"), "falsestatement")

\* TypeChecker.check_while
check_while(code, st) ==
    CheckStmtChild(CheckCondChild(Ret(code, st), "condition"), "statement")

\* TypeChecker.check_for_stmt
check_for_stmt(code, st) ==
    CheckStmtChild(CheckStmtChild(CheckCondChild(CheckStmtChild(Ret(code, st), "init"),
                                                 "condition"), "statement"), "final")

\* The loop of check_switch_stmt over the options.  O is the loop's frame:
\* the switch as it stands (e), the state, the exception and the flag
\* default_block.  options_val is the turn of option i after the check of
\* its code with result r, options_next the rest of the loop after the
\* check of its value with result r.
RECURSIVE check_options(_, _), options_val(_, _, _), options_next(_, _, _)
check_options(O, i) ==
    IF i > Len(O.e.options) THEN O
    ELSE options_val(O, i, check_stmt(O.e.options[i].code, O.st))

options_val(O, i, r) ==
    IF r.exc # NoExc THEN [O EXCEPT !.e.options[i].code = r.e, !.st = r.st, !.exc = r.exc]
    ELSE IF O.e.options[i].val = NoneNode
    THEN check_options([O EXCEPT !.e.options[i].code = r.e, !.st = r.st,
                                 !.default_block = TRUE], i + 1)
    ELSE options_next([O EXCEPT !.e.options[i].code = r.e, !.st = r.st], i,
                      check_expr(O.e.options[i].val, FALSE, r.st))

options_next(O, i, r) ==
    IF r.exc # NoExc THEN [O EXCEPT !.e.options[i].val = r.e, !.st = r.st, !.exc = r.exc]
    ELSE check_options([O EXCEPT !.e.options[i].val = r.e, !.st = r.st], i + 1)

\* The default-case test of check_switch_stmt, never failing.
DefaultNotRequired(default_block) == FALSE

\* The default-case test of check_switch_stmt.
MissingDefault(default_block) == ~default_block

\* check_switch_stmt: the condition must be integer.
switch_is_int(F) ==
    IF Failed(F) THEN F
    ELSE IF ~equal_types(IntT, F.e.expression.typ)
    THEN Fail(F, SemanticError(Msg("Switch condition must be integer", <<>>),
                               F.e.expression.loc))
    ELSE F

switch_options(F) ==
    IF Failed(F) THEN [e |-> F.e, st |-> F.st, exc |-> F.exc, default_block |-> FALSE]
    ELSE check_options([e |-> F.e, st |-> F.st, exc |-> NoExc, default_block |-> FALSE], 1)

switch_default(O) ==
    IF O.exc # NoExc THEN Raise(O.e, O.st, O.exc)
    ELSE IF MissingDefault(O.default_block)
    THEN Raise(O.e, O.st,
               SemanticError(Msg("No default case specified in switch-case", <<>>), O.e.loc))
    ELSE Ret(O.e, O.st)

\* TypeChecker.check_switch_stmt
check_switch_stmt(switch, st) ==
    switch_default(switch_options(switch_is_int(
        CheckChild(Ret(switch, st), "expression", TRUE))))

\* check_stmt: the ExpressionStatement branch after the call was checked.
call_is_void(F) ==
    IF Failed(F) THEN F
    ELSE IF ~equal_types(VoidT, F.e.ex.typ)
    THEN Fail(F, SemanticError(Msg("Can only call void functions", <<>>), F.e.ex.loc))
    ELSE F

\* check_stmt: the try block.
check_stmt_kind(code, st) ==
    CASE code.kind = "Compound" -> check_statements(code, 1, st)
      [] code.kind = "Empty" -> Ret(code, st)
      [] code.kind = "Assignment" -> check_assignment_stmt(code, st)
      [] code.kind = "ExpressionStatement" ->
           IF code.ex.kind # "FunctionCall"
           THEN Raise(code, st, SemanticError(Msg("Not a call expression", <<>>), code.ex.loc))
           ELSE call_is_void(Sub(Ret(code, st), "ex", check_function_call(code.ex, st)))
      [] code.kind = "If" -> check_if_stmt(code, st)
      [] code.kind = "Return" -> check_return_stmt(code, st)
      [] code.kind = "While" -> check_while(code, st)
      [] code.kind = "For" -> check_for_stmt(code, st)
      [] code.kind = "Switch" -> check_switch_stmt(code, st)
      [] OTHER -> Raise(code, st, NotImplementedError)

\* TypeChecker.check_stmt
check_stmt(code, st) ==
    except_SemanticError(check_stmt_kind(code, Called(st, "check_stmt", code)))

(***************************************************************************)
(* Functions and modules.                                                  *)
(***************************************************************************)
\* A function of a module: its parameters and the symbols of its inner
\* scope are sequences of [typ], body is a statement or NoneNode.
FunctionDef(parameters, returntype, inner_scope, body) ==
    [parameters |-> parameters, typ |-> [returntype |-> returntype],
     inner_scope |-> inner_scope, body |-> body, loc |-> NoLoc]

\* The first violation among the parameters of a function, in the order
\* of the loop of check_function.
RECURSIVE check_parameters(_, _)
check_parameters(function, i) ==
    IF i > Len(function.parameters) THEN NoExc
    ELSE LET ct == check_type(function.parameters[i].typ, function.loc)
         IN  IF ct # NoExc THEN ct
             ELSE IF ~is_simple_type(function.parameters[i].typ)
             THEN SemanticError(Msg("Function parameters can only be simple types", <<>>),
                                function.loc)
             ELSE check_parameters(function, i + 1)

\* The first ill-formed type of a sequence of typed symbols, as check_type
\* raises it.
RECURSIVE check_types(_, _)
check_types(syms, i) ==
    IF i > Len(syms) THEN NoExc
    ELSE LET ct == check_type(syms[i].typ, syms[i].loc)
         IN  IF ct # NoExc THEN ct ELSE check_types(syms, i + 1)

\* TypeChecker.check_function
check_function(function, st) ==
    LET pe == check_parameters(function, 1)
        se == check_types(function.inner_scope, 1)
    IN  IF pe # NoExc THEN Raise(function, st, pe)
        ELSE IF ~is_simple_type(function.typ.returntype)
        THEN Raise(function, st,
                   SemanticError(Msg("Functions can only return simple types", <<>>),
                                 function.loc))
        ELSE IF se # NoExc THEN Raise(function, st, se)
        ELSE IF function.body # NoneNode THEN CheckStmtChild(Ret(function, st), "body")
        ELSE Ret(function, st)

\* A module: its declared types (a sequence of [typ, loc]), its global
\* variables (a sequence of [typ, isLocal, loc]) and, checked one by one,
\* its functions.
RECURSIVE check_variables(_, _)
check_variables(vars, i) ==
    IF i > Len(vars) THEN NoExc
    ELSE IF vars[i].isLocal THEN AssertionError
    ELSE LET ct == check_type(vars[i].typ, vars[i].loc)
         IN  IF ct # NoExc THEN ct ELSE check_variables(vars, i + 1)

\* The top-level section of check_module with one handler for each entry:
\* every ill-formed type and global is reported.
RECURSIVE ReportEach(_, _, _)
ReportEach(syms, i, st) ==
    IF i > Len(syms) THEN st
    ELSE LET ct == check_type(syms[i].typ, syms[i].loc)
         IN  ReportEach(syms, i + 1, IF ct # NoExc THEN error(st, ct.msg, ct.loc) ELSE st)

TopLevelEach(module, st) ==
    [st |-> ReportEach(module.variables, 1, ReportEach(module.types, 1, st)), exc |-> NoExc]

\* The top-level section of check_module: the types, then the globals, in
\* one try block whose handler reports the SemanticError that ended it.
check_module_top(module, st) ==
    LET te == check_types(module.types, 1)
        ex == IF te # NoExc THEN te ELSE check_variables(module.variables, 1)
    IN  IF ex.cls = "SemanticError"
        THEN [st |-> error(st, ex.msg, ex.loc), exc |-> NoExc]
        ELSE [st |-> st, exc |-> ex]

\* The handler of the function loop of check_module, reporting nothing.
FunctionUnhandled(r) == r

\* The handler of the function loop of check_module: the SemanticError of
\* a function is reported and the loop goes on.
function_handler(r) ==
    IF r.exc.cls = "SemanticError"
    THEN Ret(r.e, error(r.st, r.exc.msg, r.exc.loc))
    ELSE r

\* One turn of the function loop of check_module.
check_module_function(func, st) == function_handler(check_function(func, st))

(***************************************************************************)
(* The programs the checker is run on.                                     *)
(***************************************************************************)
\* A checker on which nothing was reported yet.
Fresh == [diag |-> <<>>, module_ok |-> TRUE, calls |-> <<>>]

SeqsUpTo(S, n) == UNION {[1..k -> S] : k \in 0..n}

LitInt == Literal("int")
LitFloat == Literal("float")
LitBool == Literal("bool")
LitStr == Literal("str")
Id(n) == Identifier(n)

Literals == {Literal(v) : v \in {"int", "float", "bool", "str", "NoneType"}}
Identifiers ==
    {Id(n) : n \in {"x", "d", "bt", "bo", "p", "s", "o", "arr", "mi", "c", "cs", "m", "f0", "u"}}
Atoms == Literals \cup Identifiers \cup {Sizeof(IntT), Sizeof(DefinedType("Nope"))}
Operands ==
    {LitInt, LitFloat, LitBool, LitStr, Id("x"), Id("d"), Id("bt"), Id("p"), Id("s"),
     Id("c"), Id("u")}
ArgAtoms == {LitInt, LitStr, Id("x"), Id("d"), Id("s"), Id("u")}
CastTypes == {IntT, DoubleT, StructT, ArrT, PointerType(IntT)}

Calls ==
    {FunctionCall(f, args) : f \in {"f0", "f1", "f2", "fs", "x", "u"},
                             args \in SeqsUpTo(ArgAtoms, MaxArgs)}
Exprs1 ==
    {Binop(a, op, b) : a \in Operands, op \in {"+", "==", "and"}, b \in Operands}
    \cup {Unop(op, a) : op \in {"&", "-", "not"}, a \in Atoms}
    \cup {Deref(a) : a \in Atoms}
    \cup {Member(a, f) : a \in Atoms, f \in {"x", "inner", "gx", "gf", "nofield"}}
    \cup {Index(a, i) : a \in {Id("arr"), Id("s"), Id("x"), Id("c"), Id("p"), Id("u")},
                        i \in {LitInt, LitStr, Id("bt"), Id("d"), Id("u")}}
    \cup {TypeCast(t, a, NoLoc) : t \in CastTypes, a \in Operands}
    \cup Calls

Inner ==
    {Member(Id("o"), "inner"), Member(Id("s"), "x"), Member(Id("s"), "q"),
     Member(Id("m"), "gs"), Member(Id("m"), "gx"), Member(Id("cs"), "x"),
     TypeCast(StructT, Id("x"), NoLoc), TypeCast(ArrT, Id("x"), NoLoc),
     TypeCast(PointerType(StructT), Id("p"), NoLoc),
     Unop("&", Id("x")), Unop("&", Id("s")), Unop("-", Id("x")), Unop("not", Id("bo")),
     Deref(Id("p")), Index(Id("arr"), LitInt), Index(Id("arr"), Id("bt")),
     Binop(Id("x"), "+", Id("d")), Binop(Id("x"), "+", Id("bt")), Binop(Id("x"), "*", Id("x")),
     Binop(Id("x"), "==", Id("c")), Binop(Id("x"), "<", Id("d")),
     Binop(LitBool, "and", Id("bo")), Binop(Id("x"), "or", LitBool),
     FunctionCall("f1", <<Id("x")>>), FunctionCall("fs", <<>>), FunctionCall("f1", <<>>)}
Exprs2 ==
    {Unop(op, a) : op \in {"&", "-", "not"}, a \in Inner}
    \cup {Deref(a) : a \in Inner}
    \cup {Member(a, f) : a \in Inner, f \in {"x", "q", "nofield"}}
    \cup {Index(a, LitInt) : a \in Inner}
    \cup {Index(Id("arr"), a) : a \in Inner}
    \cup {TypeCast(t, a, NoLoc) : t \in {IntT, StructT, ArrT}, a \in Inner}
    \cup {Binop(a, op, b) : a \in Inner, op \in {"+", "==", "and"},
                            b \in {LitInt, LitBool, Id("x"), Id("d")}}
    \cup {Binop(b, op, a) : a \in Inner, op \in {"+", "<", "or"},
                            b \in {LitInt, LitBool, Id("x"), Id("d")}}
    \cup {FunctionCall("f2", <<a, b>>) : a \in Inner, b \in {Id("d"), Id("x")}}
Exprs == Atoms \cup Exprs1 \cup Exprs2

\* The expressions do_coerce is called on, each one as check_expr with
\* rvalue = True left it, and the types they are coerced to.  Every one of
\* them checks without error.
CoerceExprs ==
    {LitInt, LitFloat, LitBool, LitStr, Id("x"), Id("d"), Id("bt"), Id("bo"), Id("p"),
     Id("mi"), Id("c"), Id("cs"), TypeCast(FloatT, Id("d"), NoLoc),
     TypeCast(PointerType(StructT), Id("p"), NoLoc), Unop("&", Id("x")), Unop("-", Id("x")),
     Deref(Id("p")), Member(Id("s"), "x"), Member(Id("s"), "q"), Member(Id("m"), "gx"),
     Index(Id("arr"), LitInt), Binop(Id("x"), "+", Id("d")), Binop(Id("x"), "+", Id("x")),
     Binop(Id("x"), "<", Id("d")), Unop("not", Id("bo")), FunctionCall("f1", <<Id("x")>>)}
CoerceTypes ==
    {IntT, ByteT, DoubleT, FloatT, BoolT, StringT, VoidT, PointerType(IntT),
     PointerType(StructT), StructT, ArrT, DefinedType("MyInt")}
Checked(e) == check_expr(Located(e, <<1>>), TRUE, Fresh).e

\* Statements that are well typed, and statements with one violation.
GoodStmts == {Empty, Assignment(Id("x"), LitInt), ExpressionStatement(FunctionCall("f0", <<>>))}
BadStmts == {Assignment(LitInt, Id("x")), Return(Id("u"))}
Simple == GoodStmts \cup BadStmts

LVals ==
    {LitInt, Id("x"), Id("d"), Id("bt"), Id("p"), Id("s"), Id("c"), Id("u"), Id("mi"),
     Deref(Id("p")), Member(Id("s"), "x"), Member(Id("m"), "gx"), Index(Id("arr"), LitInt),
     Binop(Id("x"), "+", Id("x")), Unop("-", Id("x")), FunctionCall("f1", <<Id("x")>>),
     Sizeof(IntT), TypeCast(IntT, Id("x"), NoLoc), FunctionCall("fs", <<>>)}
RVals == Operands \cup Inner
Conds ==
    {LitBool, LitInt, Id("bo"), Id("x"), Id("u"), Id("s"), Unop("not", Id("bo")),
     Unop("not", Id("x")), Unop("-", Id("x")), Binop(Id("x"), "==", Id("c")),
     Binop(Id("x"), "==", Id("d")), Binop(Id("x"), "==", LitStr), Binop(Id("x"), "+", Id("c")),
     Binop(Id("bo"), "and", Binop(Id("x"), "<", Id("c"))),
     Binop(Id("x"), "or", Id("bo")), FunctionCall("f1", <<Id("x")>>)}
Options ==
    {Option(v, code) : v \in {NoneNode, LitInt, Id("x"), Id("u")},
                       code \in {Empty, Assignment(LitInt, Id("x")),
                                 Switch(Id("x"), <<>>)}}
Scrutinees == {Id("x"), Id("c"), Id("mi"), LitInt, Id("d"), Id("bt"), Id("s"), Id("u"), LitStr}
Switches == {Switch(e, opts) : e \in Scrutinees, opts \in SeqsUpTo(Options, MaxOptions)}
Children ==
    Simple
    \cup {Compound(<<Assignment(LitInt, Id("x")), Assignment(Id("x"), LitInt)>>),
          If(Id("bo"), Compound(<<Return(Id("u")), Assignment(Id("x"), LitInt)>>), Empty),
          If(Id("u"), Assignment(LitInt, Id("x")), Empty),
          While(LitInt, Return(Id("u"))),
          Switch(Id("d"), <<Option(NoneNode, Empty)>>),
          Assignment(Id("x"), Member(Id("cs"), "x"))}
Stmts ==
    {Return(e) : e \in Exprs \cup {NoneNode}}
    \cup {Assignment(l, r) : l \in LVals, r \in RVals}
    \cup {ExpressionStatement(e) : e \in Calls \cup {Id("x"), LitInt, Binop(Id("x"), "+", Id("x"))}}
    \cup {If(c, a, b) : c \in Conds, a \in Simple, b \in Simple}
    \cup {While(c, a) : c \in Conds, a \in Simple}
    \cup {For(i, c, a, f) : i \in BadStmts \cup {Empty}, c \in Conds, a \in BadStmts \cup {Empty},
                            f \in BadStmts \cup {Empty}}
    \cup Switches
    \cup {Compound(ss) : ss \in SeqsUpTo(Children, MaxStmts)}

\* Functions that are well typed, functions with a violation, and a
\* function whose body fails an assertion of the checker.
Sym(t) == [typ |-> t, loc |-> NoLoc]
GoodFunctions ==
    {FunctionDef(<<Sym(IntT)>>, IntT, <<Sym(IntT)>>, Compound(<<Return(Id("x"))>>)),
     FunctionDef(<<>>, VoidT, <<Sym(StructT)>>,
                 Compound(<<Assignment(Id("x"), LitInt), Assignment(Id("d"), Id("x"))>>)),
     FunctionDef(<<Sym(IntT), Sym(PointerType(IntT))>>, VoidT, <<>>, NoneNode),
     FunctionDef(<<>>, VoidT, <<>>,
                 Compound(<<ExpressionStatement(FunctionCall("f0", <<>>)),
                            If(Binop(Id("x"), "==", Id("c")),
                               Assignment(Id("x"), Id("c")), Empty)>>))}
ReturnsString == FunctionDef(<<>>, IntT, <<>>, Compound(<<Return(LitStr)>>))
BadFunctions ==
    {FunctionDef(<<Sym(IntT), Sym(StructT)>>, IntT, <<>>, Compound(<<Return(Id("u"))>>)),
     FunctionDef(<<>>, StructT, <<>>, Compound(<<Return(Id("x"))>>)),
     FunctionDef(<<>>, VoidT, <<Sym(DefinedType("Nope"))>>, Compound(<<Return(Id("u"))>>)),
     FunctionDef(<<>>, VoidT, <<>>,
                 Compound(<<Assignment(LitInt, Id("x")), Assignment(Id("x"), LitInt)>>)),
     FunctionDef(<<>>, VoidT, <<>>,
                 Compound(<<Assignment(LitInt, Id("x")),
                            ExpressionStatement(FunctionCall("f1", <<>>)),
                            Assignment(Id("x"), LitInt)>>))}
AssertingFunction ==
    FunctionDef(<<>>, VoidT, <<>>, Compound(<<Assignment(Id("x"), Member(Id("cs"), "x"))>>))
Functions == GoodFunctions \cup BadFunctions \cup {ReturnsString, AssertingFunction}

\* The top-level sections of a module: types and globals, well formed or
\* not.
Var(t) == [typ |-> t, isLocal |-> FALSE, loc |-> NoLoc]
TopLevel(types, variables) == [types |-> types, variables |-> variables]
TopLevels ==
    {TopLevel(ts, vs) : ts \in SeqsUpTo({Sym(StructT), Sym(DefinedType("Nope"))}, 2),
                        vs \in SeqsUpTo({Var(IntT), Var(DefinedType("MyStruct"))}, 2)}
IllFormedCount(module) ==
    Cardinality({i \in DOMAIN module.types : ~WellFormed(module.types[i].typ)})
    + Cardinality({i \in DOMAIN module.variables : ~WellFormed(module.variables[i].typ)})

\* The parser's locations for a function and for a top-level section.
LocatedSyms(syms, loc, k) == [i \in DOMAIN syms |-> [syms[i] EXCEPT !.loc = Append(loc, k + i)]]
LocatedFunction(f, loc) ==
    [f EXCEPT !.loc = loc, !.body = Located(f.body, Append(loc, 1)),
              !.parameters = LocatedSyms(f.parameters, loc, 10),
              !.inner_scope = LocatedSyms(f.inner_scope, loc, 20)]
LocatedTopLevel(module, loc) ==
    [types |-> LocatedSyms(module.types, loc, 10),
     variables |-> LocatedSyms(module.variables, loc, 20)]

(***************************************************************************)
(* The state machine.                                                      *)
(*   pc        where the pass stands                                       *)
(*   shape     the number of functions of each module of context.modules   *)
(*   mi, fi    the module under check, and its functions checked so far    *)
(*   module_ok TypeChecker.module_ok                                       *)
(*   diag      the errors the diagnostics sink has received                *)
(*   log       the calls of check_module / check_function so far, each     *)
(*             with the number of errors the call sent to the sink         *)
(*   cur       the node last checked: as given, as left, the exception     *)
(*             that left the check, and the check_stmt / check_expr calls  *)
(*             made; for do_coerce also the wanted type (typ) and the node *)
(*             that was passed as the call left it (arg), out being the    *)
(*             node returned                                               *)
(***************************************************************************)
VARIABLES pc, shape, mi, fi, module_ok, diag, log, cur
vars == <<pc, shape, mi, fi, module_ok, diag, log, cur>>

Idle == [op |-> "none", input |-> NoneNode, rvalue |-> FALSE, typ |-> NoType,
         out |-> NoneNode, arg |-> NoneNode, exc |-> NoExc, calls |-> <<>>]
State == [diag |-> diag, module_ok |-> module_ok, calls |-> <<>>]
Logged(fn, loc, clean, st) ==
    Append(log, [fn |-> fn, loc |-> loc, clean |-> clean, added |-> Len(st.diag) - Len(diag)])

Init ==
    /\ pc = "check"
    /\ shape \in SeqsUpTo(0..MaxFuncs, MaxModules)
    /\ mi = 0
    /\ fi = 0
    /\ module_ok = TRUE
    /\ diag = <<>>
    /\ log = <<>>
    /\ cur = Idle

\* check(): the loop takes the next module and check_module begins.
BeginModule ==
    /\ pc = "check"
    /\ mi < Len(shape)
    /\ mi' = mi + 1
    /\ fi' = 0
    /\ module_ok' = TRUE
    /\ pc' = "toplevel"
    /\ log' = Append(log, [fn |-> "check_module", loc |-> <<mi + 1>>, clean |-> TRUE, added |-> 0])
    /\ UNCHANGED <<shape, diag, cur>>

\* check_module: the types and globals of the module.
CheckTopLevel ==
    /\ pc = "toplevel"
    /\ \E t \in TopLevels :
       \E r \in {check_module_top(LocatedTopLevel(t, <<mi, 0>>), State)} :
          /\ module_ok' = r.st.module_ok
          /\ diag' = r.st.diag
          /\ log' = Logged("toplevel", <<mi, 0>>, IllFormedCount(t) = 0, r.st)
          /\ pc' = IF r.exc = NoExc THEN "functions" ELSE "crashed"
          /\ cur' = [Idle EXCEPT !.op = "toplevel", !.input = LocatedTopLevel(t, <<mi, 0>>),
                                 !.exc = r.exc]
    /\ UNCHANGED <<shape, mi, fi>>

\* check_module: one turn of the loop over the functions.
CheckFunction ==
    /\ pc = "functions"
    /\ fi < shape[mi]
    /\ \E f \in Functions :
       \E r \in {check_module_function(LocatedFunction(f, <<mi, fi + 1>>), State)} :
          /\ module_ok' = r.st.module_ok
          /\ diag' = r.st.diag
          /\ log' = Logged("check_function", <<mi, fi + 1>>, f \in GoodFunctions, r.st)
          /\ pc' = IF r.exc = NoExc THEN "functions" ELSE "crashed"
          /\ cur' = [op |-> "check_function", input |-> LocatedFunction(f, <<mi, fi + 1>>),
                     rvalue |-> FALSE, typ |-> NoType, out |-> r.e, arg |-> NoneNode,
                     exc |-> r.exc, calls |-> r.st.calls]
    /\ fi' = fi + 1
    /\ UNCHANGED <<shape, mi>>

\* The end of check_module: "Errors occurred" is raised when the module is
\* not ok, and nothing in check() catches it; else check() goes on.
AfterModule(ok) == IF ok THEN "check" ELSE "raised"

EndModule ==
    /\ pc = "functions"
    /\ fi = shape[mi]
    /\ pc' = AfterModule(module_ok)
    /\ UNCHANGED <<shape, mi, fi, module_ok, diag, log, cur>>

\* check() returns: every module was checked and none was invalid.
CheckReturns ==
    /\ pc = "check"
    /\ mi = Len(shape)
    /\ pc' = "done"
    /\ UNCHANGED <<shape, mi, fi, module_ok, diag, log, cur>>

Next == BeginModule \/ CheckTopLevel \/ CheckFunction \/ EndModule \/ CheckReturns

Spec == Init /\ [][Next]_vars

(***************************************************************************)
(* check_stmt and check_expr on one node: the statement of a function      *)
(* body, or an expression with the rvalue flag of the call.                *)
(***************************************************************************)
InitNode ==
    /\ pc = "node"
    /\ shape = <<>>
    /\ mi = 0
    /\ fi = 0
    /\ module_ok = TRUE
    /\ diag = <<>>
    /\ log = <<>>
    /\ \/ \E s \in Stmts : cur = [Idle EXCEPT !.op = "check_stmt", !.input = Located(s, <<1>>)]
       \/ \E e \in Exprs, rv \in BOOLEAN :
             cur = [Idle EXCEPT !.op = "check_expr", !.input = Located(e, <<1>>), !.rvalue = rv]
       \/ \E e \in CoerceExprs, t \in CoerceTypes :
             cur = [Idle EXCEPT !.op = "do_coerce", !.input = Checked(e), !.typ = t]

CallCheckStmt ==
    /\ pc = "node"
    /\ cur.op = "check_stmt"
    /\ \E r \in {check_stmt(cur.input, State)} :
          /\ module_ok' = r.st.module_ok
          /\ diag' = r.st.diag
          /\ cur' = [cur EXCEPT !.out = r.e, !.exc = r.exc, !.calls = r.st.calls]
    /\ pc' = "checked"
    /\ UNCHANGED <<shape, mi, fi, log>>

CallCheckExpr ==
    /\ pc = "node"
    /\ cur.op = "check_expr"
    /\ \E r \in {check_expr(cur.input, cur.rvalue, State)} :
          /\ module_ok' = r.st.module_ok
          /\ diag' = r.st.diag
          /\ cur' = [cur EXCEPT !.out = r.e, !.exc = r.exc, !.calls = r.st.calls]
    /\ pc' = "checked"
    /\ UNCHANGED <<shape, mi, fi, log>>

\* do_coerce on an expression its caller has checked as an rvalue.
CallDoCoerce ==
    /\ pc = "node"
    /\ cur.op = "do_coerce"
    /\ \E c \in {do_coerce(cur.input, cur.typ, State)} :
          /\ module_ok' = c.st.module_ok
          /\ diag' = c.st.diag
          /\ cur' = [cur EXCEPT !.out = c.e, !.arg = c.orig, !.exc = c.exc,
                                !.calls = c.st.calls]
    /\ pc' = "checked"
    /\ UNCHANGED <<shape, mi, fi, log>>

NextNode == CallCheckStmt \/ CallCheckExpr \/ CallDoCoerce

SpecNode == InitNode /\ [][NextNode]_vars

(***************************************************************************)
(* Properties.                                                             *)
(***************************************************************************)
Last(seq) == seq[Len(seq)]
Reported(exc) == [msg |-> exc.msg, loc |-> exc.loc]
Count(seq, text) == Cardinality({i \in DOMAIN seq : seq[i].msg.text = text})
CountAt(seq, text, loc) ==
    Cardinality({i \in DOMAIN seq : seq[i].msg.text = text /\ seq[i].loc = loc})

\* Location p is that of the node at l or of a node above it.
IsPrefix(p, l) == Len(p) <= Len(l) /\ SubSeq(l, 1, Len(p)) = p

\* The errors sent to the sink since the check of the current module began.
RECURSIVE AddedSince(_, _)
AddedSince(l, i) ==
    IF i = 0 THEN 0
    ELSE IF l[i].fn = "check_module" THEN 0
    ELSE l[i].added + AddedSince(l, i - 1)
AddedInModule == AddedSince(log, Len(log))

\* The entries of the log for module m: its functions checked, in order,
\* and its top-level section.
IsFunctionOf(e, m) == e.fn = "check_function" /\ e.loc[1] = m
FunctionsChecked(m) == SelectSeq(log, LAMBDA e : IsFunctionOf(e, m))
AllFunctionsChecked(m) ==
    /\ Len(FunctionsChecked(m)) = shape[m]
    /\ \A i \in 1..shape[m] : FunctionsChecked(m)[i].loc = <<m, i>>
TopLevelDirty(m) == \E i \in DOMAIN log : log[i].fn = "toplevel" /\ log[i].loc[1] = m /\ ~log[i].clean
ModuleEnded == pc \in {"raised", "done"} \/ (pc = "check" /\ mi > 0)

\* --- C1 ------------------------------------------------------------------
\* C1: check() raises the aggregate error only after check_module has run
\* for every module of the unit: when the pass has failed, the last module
\* of the unit is the one that was checked last.
C1_RaisedAfterEveryModule == pc = "raised" => mi = Len(shape)

\* --- C2 ------------------------------------------------------------------
\* C2: no SemanticError of a function leaves the function loop of
\* check_module: the error check_function raised is the one reported last
\* and the module is marked invalid; when check_module ends, check_function
\* was invoked once for every function of the module in declaration order;
\* and a function with no violation of its own adds nothing to the sink.
C2_FunctionErrorsContained ==
    /\ cur.op = "check_function" =>
          /\ cur.exc.cls # "SemanticError"
          /\ \A r \in {check_function(cur.input, Fresh)} :
                r.exc.cls = "SemanticError" =>
                   /\ pc # "crashed"
                   /\ ~module_ok
                   /\ Last(diag) = Reported(r.exc)
                   /\ Last(log).added = Len(r.st.diag) + 1
    /\ (ModuleEnded /\ mi > 0) => AllFunctionsChecked(mi)
    /\ \A i \in DOMAIN log : (log[i].fn = "check_function" /\ log[i].clean) => log[i].added = 0

\* A function whose return type is not simple was reported by the handler
\* of the loop, and the function after it, a clean one, was checked and
\* added nothing.
C2_Witness ==
    /\ cur.op = "check_function"
    /\ fi >= 2
    /\ Len(log) >= 2
    /\ Last(log).clean /\ Last(log).added = 0
    /\ log[Len(log) - 1].fn = "check_function" /\ log[Len(log) - 1].added = 1
    /\ Len(diag) >= 1
    /\ Last(diag).msg.text = "Functions can only return simple types"

\* --- C3 ------------------------------------------------------------------
\* C3: a top-level section with an ill-formed type or global adds exactly
\* one error to the sink, however many of its entries are ill formed, and
\* a well-formed one adds none; the check goes on to the functions, every
\* one of which is checked before check_module ends, the clean ones adding
\* nothing.
C3_TopLevelReportedOnce ==
    /\ \A i \in DOMAIN log :
          log[i].fn = "toplevel" => log[i].added = (IF log[i].clean THEN 0 ELSE 1)
    /\ cur.op = "toplevel" =>
          /\ pc # "crashed"
          /\ cur.exc = NoExc
          /\ IllFormedCount(cur.input) > 0 =>
                /\ ~module_ok
                /\ Last(diag).msg.text = "Undefined type"
    /\ (ModuleEnded /\ mi > 0 /\ TopLevelDirty(mi)) =>
          /\ Len(FunctionsChecked(mi)) = shape[mi]
          /\ \A i \in 1..shape[mi] :
                FunctionsChecked(mi)[i].clean => FunctionsChecked(mi)[i].added = 0

\* A module whose top-level section had an ill-formed entry ended with two
\* functions checked and one error in all.
C3_Witness ==
    /\ pc = "raised"
    /\ TopLevelDirty(mi)
    /\ shape[mi] >= 2
    /\ Len(FunctionsChecked(mi)) = shape[mi]
    /\ AddedInModule = 1

\* --- C4 ------------------------------------------------------------------
\* The statements check_stmt was called on, by location, and the pairs
\* <<Compound, child>> of the locations of a statement tree.
VisitedStmts == {cur.calls[i].loc : i \in {j \in DOMAIN cur.calls : cur.calls[j].fn = "check_stmt"}}

RECURSIVE CompoundChildren(_)
CompoundChildren(n) ==
    CASE n.kind = "Compound" ->
           {<<n.loc, n.statements[j].loc>> : j \in DOMAIN n.statements}
           \cup UNION {CompoundChildren(n.statements[j]) : j \in DOMAIN n.statements}
      [] n.kind = "If" -> CompoundChildren(n.truestatement) \cup CompoundChildren(n.falsestatement)
      [] n.kind = "While" -> CompoundChildren(n.statement)
      [] n.kind = "For" ->
           CompoundChildren(n.init) \cup CompoundChildren(n.statement)
           \cup CompoundChildren(n.final)
      [] n.kind = "Switch" ->
           UNION {CompoundChildren(n.options[j].code) : j \in DOMAIN n.options}
      [] OTHER -> {}

\* C4: no SemanticError leaves check_stmt: the one the statement's own
\* rule raised is the error reported last and the checker is marked
\* invalid; and, unless an assertion of the checker ended the pass, every
\* statement of every Compound that check_stmt visited was visited too,
\* whatever its earlier siblings reported.
C4_StatementErrorsContained ==
    (cur.op = "check_stmt" /\ pc = "checked") =>
       /\ cur.exc.cls # "SemanticError"
       /\ \A r \in {check_stmt_kind(cur.input, Fresh)} :
             r.exc.cls = "SemanticError" =>
                /\ cur.exc = NoExc
                /\ ~module_ok
                /\ Last(diag) = Reported(r.exc)
                /\ Len(diag) = Len(r.st.diag) + 1
       /\ cur.exc = NoExc =>
             \A p \in CompoundChildren(cur.input) :
                p[1] \in VisitedStmts => p[2] \in VisitedStmts

\* A Compound whose first statement was reported as an error (5 = x) and
\* whose later statements, the last one included, were visited.
C4_Witness ==
    /\ cur.op = "check_stmt" /\ pc = "checked"
    /\ cur.input.kind = "Compound"
    /\ Len(cur.input.statements) >= 2
    /\ cur.input.statements[1].kind = "Assignment"
    /\ cur.input.statements[1].lval.kind = "Literal"
    /\ Len(diag) >= 1
    /\ diag[1] = [msg |-> Msg("No valid lvalue", <<>>), loc |-> <<1, 1, 1>>]
    /\ \A j \in DOMAIN cur.input.statements : cur.input.statements[j].loc \in VisitedStmts

\* --- C5 ------------------------------------------------------------------
\* A module whose top-level section and functions were all clean.
AllClean(m) ==
    \A i \in DOMAIN log :
       (log[i].loc[1] = m /\ log[i].fn \in {"toplevel", "check_function"}) => log[i].clean

\* C5: while a module is checked, module_ok is false exactly when an error
\* was sent to the sink since check_module began; check_module ends with
\* "Errors occurred" exactly when one was; a module with no violation ends
\* without raising and with nothing sent; and when check() returns, the
\* sink has received nothing.
C5_InvalidIffReported ==
    /\ mi > 0 => (module_ok <=> AddedInModule = 0)
    /\ pc = "raised" => AddedInModule > 0
    /\ (pc = "check" /\ mi > 0) => AddedInModule = 0
    /\ (ModuleEnded /\ mi > 0 /\ AllClean(mi)) => (pc # "raised" /\ AddedInModule = 0)
    /\ pc = "done" => diag = <<>>

\* A first module ended without raising, nothing reported, and the second
\* one raised after an error was reported.
C5_Witness ==
    /\ pc = "raised"
    /\ mi = 2
    /\ ~module_ok
    /\ Len(diag) >= 1
    /\ AddedInModule = Len(diag)

\* --- C6 ------------------------------------------------------------------
\* The left hand side of the assignment under check is checked without
\* error as a non-lvalue of simple type.
LhsIsSimpleNonLvalue ==
    /\ cur.op = "check_stmt"
    /\ cur.input.kind = "Assignment"
    /\ \E l \in {check_expr(cur.input.lval, FALSE, Fresh)} :
          /\ l.exc = NoExc
          /\ l.e.lvalue # True
          /\ is_simple_type(l.e.typ)

\* C6: an assignment whose left hand side checks as a non-lvalue of simple
\* type reports "No valid lvalue" at the left hand side, once and last,
\* and leaves its right hand side as the parser built it: no typ, no
\* lvalue, no cast, and check_expr was called on no node of it.
C6_InvalidLvalueSkipsRhs ==
    (pc = "checked" /\ LhsIsSimpleNonLvalue) =>
       /\ cur.exc = NoExc
       /\ Len(diag) >= 1
       /\ Last(diag) = [msg |-> Msg("No valid lvalue", <<>>), loc |-> cur.input.lval.loc]
       /\ Count(diag, "No valid lvalue") = 1
       /\ cur.out.rval = cur.input.rval
       /\ \A i \in DOMAIN cur.calls :
             ~IsPrefix(cur.input.rval.loc, cur.calls[i].loc)

\* 5 = x was checked.
C6_Witness ==
    /\ pc = "checked"
    /\ LhsIsSimpleNonLvalue
    /\ cur.input.lval.kind = "Literal"
    /\ cur.input.rval.kind = "Identifier"
    /\ diag = <<[msg |-> Msg("No valid lvalue", <<>>), loc |-> <<1, 1>>]>>

\* --- C7 ------------------------------------------------------------------
NoDefaultText == "No default case specified in switch-case"

\* The statement checked is a switch none of whose options is the default.
SwitchWithoutDefault ==
    /\ pc = "checked"
    /\ cur.op = "check_stmt"
    /\ cur.input.kind = "Switch"
    /\ \A j \in DOMAIN cur.input.options : cur.input.options[j].val # NoneNode

\* The scrutinee of the switch checks as an int rvalue and each case value
\* checks without error.
SwitchChecksClean ==
    /\ \E r \in {check_expr(cur.input.expression, TRUE, Fresh)} :
          r.exc = NoExc /\ equal_types(IntT, r.e.typ)
    /\ \A j \in DOMAIN cur.input.options :
          check_expr(cur.input.options[j].val, FALSE, Fresh).exc = NoExc

\* C7 as stated: every switch with no default case, whatever its scrutinee
\* and cases, reports exactly one missing-default error.
C7_AnySwitchReportsMissingDefault ==
    SwitchWithoutDefault => CountAt(diag, NoDefaultText, cur.input.loc) = 1

\* C7 as amended: a switch with no default case whose scrutinee checks as
\* int and whose case bodies and case values are checked without an
\* exception leaving the check reports exactly one missing-default error,
\* at the switch and last, whatever the number of cases; when the check of
\* the scrutinee or of a case value fails, that error is the one reported
\* and no missing-default error is.
C7_CleanSwitchReportsMissingDefault ==
    SwitchWithoutDefault =>
       /\ cur.exc = NoExc
       /\ Len(diag) >= 1
       /\ IF SwitchChecksClean
          THEN /\ CountAt(diag, NoDefaultText, cur.input.loc) = 1
               /\ Last(diag) = [msg |-> Msg(NoDefaultText, <<>>), loc |-> cur.input.loc]
          ELSE /\ CountAt(diag, NoDefaultText, cur.input.loc) = 0
               /\ Last(diag).msg.text # NoDefaultText

\* A switch on an int with two cases and no default was checked.
C7_Witness ==
    /\ SwitchWithoutDefault
    /\ SwitchChecksClean
    /\ Len(cur.input.options) = 2
    /\ CountAt(diag, NoDefaultText, cur.input.loc) = 1

\* --- C8 ------------------------------------------------------------------
\* The call under check, as an expression or as the expression of an
\* ExpressionStatement, names a function of M parameters and passes N
\* arguments, N # M.
CallOf(node) == IF node.kind = "ExpressionStatement" THEN node.ex ELSE node
ParamsOf(call) == resolve_symbol(call.proc).sym.typ.parametertypes
IsCall ==
    /\ pc = "checked"
    /\ cur.input.kind \in {"FunctionCall", "ExpressionStatement"}
    /\ CallOf(cur.input).kind = "FunctionCall"
    /\ resolve_symbol(CallOf(cur.input).proc).exc = NoExc
    /\ resolve_symbol(CallOf(cur.input).proc).sym.sym = "Function"
ArityError(call) ==
    SemanticError(Msg("requires arguments, given", <<Len(ParamsOf(call)), Len(call.args)>>),
                  call.loc)
WrongArity == IsCall /\ Len(CallOf(cur.input).args) # Len(ParamsOf(CallOf(cur.input)))

\* C8: a call with N arguments to a function of M parameters, N # M, ends
\* with one error whose message carries M and N, raised out of check_expr
\* and reported once by check_stmt; no argument of the call was checked or
\* replaced.
C8_ArityMismatchBeforeArguments ==
    WrongArity =>
       /\ cur.op = "check_expr" =>
             /\ cur.exc = ArityError(cur.input)
             /\ diag = <<>>
       /\ cur.op = "check_stmt" =>
             /\ cur.exc = NoExc
             /\ diag = <<Reported(ArityError(cur.input.ex))>>
       /\ CallOf(cur.out).args = CallOf(cur.input).args
       /\ \A i \in DOMAIN cur.calls :
             \A j \in DOMAIN CallOf(cur.input).args :
                ~IsPrefix(CallOf(cur.input).args[j].loc, cur.calls[i].loc)

\* f2, of two parameters, was called in a statement with one argument.
C8_Witness ==
    /\ WrongArity
    /\ cur.op = "check_stmt"
    /\ Len(ParamsOf(cur.input.ex)) = 2
    /\ Len(cur.input.ex.args) = 1
    /\ Len(diag) = 1
    /\ diag[1].msg.args = <<2, 1>>

\* --- C9 ------------------------------------------------------------------
\* C9: in a module of two functions whose first is declared to return int
\* and returns a string literal, the check of the first function reports
\* exactly one error, the coercion failure, and the check of the second, a
\* well-typed one, reports none.
C9_ReturnTypeMismatchReported ==
    [][(/\ pc = "functions"
        /\ shape[mi] = 2
        /\ fi = 1
        /\ cur.op = "check_function"
        /\ cur.input = LocatedFunction(ReturnsString, <<mi, 1>>)
        /\ fi' = 2
        /\ Last(log').clean)
       => (/\ Last(log).added = 1
           /\ Len(diag) >= 1
           /\ Last(diag).msg.text = "Cannot use as"
           /\ Last(log').added = 0)]_vars

\* --- C10 -----------------------------------------------------------------
\* check_expr was called with rvalue = True.
RvalueChecked == pc = "checked" /\ cur.op = "check_expr" /\ cur.rvalue

\* C10: when check_expr(expr, rvalue=True) returns, expr is not an lvalue
\* and its typ is the one the rule of its kind assigned; when that rule
\* makes expr an lvalue whose type is neither a pointer nor a base type,
\* the call raises "Cannot deref" at expr and leaves lvalue true; and no
\* other call that the rule of the kind passes raises.
C10_RvalueOnlyFlipsLvalue ==
    RvalueChecked =>
       \A k \in {check_expr_kind(cur.input, Fresh)} :
          /\ cur.exc = NoExc =>
                /\ k.exc = NoExc
                /\ cur.out.lvalue = False
                /\ cur.out.typ = k.e.typ
                /\ cur.out = [k.e EXCEPT !.lvalue = False]
          /\ (k.exc = NoExc /\ k.e.lvalue = True
              /\ get_type(k.e.typ).k \notin {"ptr", "base"}) =>
                /\ cur.exc = SemanticError(Msg("Cannot deref", <<>>), cur.input.loc)
                /\ cur.out.lvalue = True
                /\ cur.out = k.e
          /\ (k.exc = NoExc /\ ~(k.e.lvalue = True
                                 /\ get_type(k.e.typ).k \notin {"ptr", "base"})) =>
                cur.exc = NoExc

\* The member s.x, an lvalue of type int by the rule of its kind, was
\* checked as an rvalue.
C10_Witness ==
    /\ RvalueChecked
    /\ cur.input.kind = "Member"
    /\ check_expr_kind(cur.input, Fresh).e.lvalue = True
    /\ cur.exc = NoExc
    /\ cur.out.lvalue = False
    /\ cur.out.typ = IntT

\* --- C11 -----------------------------------------------------------------
\* The rule table of the coercion as the specification gives it, over the
\* canonical types: "pointer", the name of a base type, or "other".
TypeClass(t) ==
    IF get_type(t).k = "ptr" THEN "pointer"
    ELSE IF get_type(t).k = "base" THEN get_type(t).n
    ELSE "other"
CastTable ==
    {<<"pointer", "pointer">>, <<"int", "pointer">>, <<"int", "byte">>, <<"int", "double">>,
     <<"double", "float">>, <<"float", "double">>, <<"byte", "int">>}
Coerced11 == pc = "checked" /\ cur.op = "do_coerce"
SameType == equal_types(cur.input.typ, cur.typ)
InTable == ~SameType /\ <<TypeClass(cur.input.typ), TypeClass(cur.typ)>> \in CastTable

C12_CheckedFieldsNotRewritten ==
    (Coerced11 /\ cur.exc = NoExc) =>
       /\ cur.arg.typ = cur.input.typ
       /\ cur.arg.lvalue = cur.input.lvalue
       /\ cur.arg = cur.input

\* --- C13 -----------------------------------------------------------------
\* Every expression node the checker visits in the tree n has its typ and
\* its lvalue set.  The callee name of a call is resolved, not visited.
RECURSIVE Resolved(_)
Resolved(n) ==
    LET set == n.typ # NoType /\ n.lvalue # Unset
    IN  CASE n.kind = "None" -> TRUE
          [] n.kind \in {"Literal", "Identifier", "Sizeof"} -> set
          [] n.kind = "Binop" -> set /\ Resolved(n.a) /\ Resolved(n.b)
          [] n.kind \in {"Unop", "TypeCast"} -> set /\ Resolved(n.a)
          [] n.kind = "Deref" -> set /\ Resolved(n.ptr)
          [] n.kind = "Member" -> set /\ (is_module_ref(n).val \/ Resolved(n.base))
          [] n.kind = "Index" -> set /\ Resolved(n.base) /\ Resolved(n.i)
          [] n.kind = "FunctionCall" -> set /\ \A j \in DOMAIN n.args : Resolved(n.args[j])
          [] n.kind = "Compound" -> \A j \in DOMAIN n.statements : Resolved(n.statements[j])
          [] n.kind = "Empty" -> TRUE
          [] n.kind = "Assignment" -> Resolved(n.lval) /\ Resolved(n.rval)
          [] n.kind = "ExpressionStatement" -> Resolved(n.ex)
          [] n.kind = "If" ->
               Resolved(n.condition) /\ Resolved(n.truestatement) /\ Resolved(n.falsestatement)
          [] n.kind = "Return" -> Resolved(n.expr)
          [] n.kind = "While" -> Resolved(n.condition) /\ Resolved(n.statement)
          [] n.kind = "For" ->
               /\ Resolved(n.init) /\ Resolved(n.condition)
               /\ Resolved(n.statement) /\ Resolved(n.final)
          [] n.kind = "Switch" ->
               /\ Resolved(n.expression)
               /\ \A j \in DOMAIN n.options :
                     Resolved(n.options[j].val) /\ Resolved(n.options[j].code)

\* C13: when a statement or an expression was checked with no error
\* reported and no exception, every expression node of it, conditions and
\* the operands of and / or / not included, carries a typ and an lvalue.
C13_VisitedNodesResolved ==
    (pc = "checked" /\ cur.op \in {"check_stmt", "check_expr"} /\ cur.exc = NoExc /\ diag = <<>>)
       => Resolved(cur.out)

\* --- C14 -----------------------------------------------------------------
DefaultCount(switch) ==
    Cardinality({j \in DOMAIN switch.options : switch.options[j].val = NoneNode})

\* C14: a switch on an int with two or more default options is reported
\* as an error.
C14_TwoDefaultsReported ==
    (/\ pc = "checked"
     /\ cur.op = "check_stmt"
     /\ cur.input.kind = "Switch"
     /\ equal_types(IntT, Checked(cur.input.expression).typ)
     /\ DefaultCount(cur.input) >= 2)
       => (Len(diag) >= 1 /\ ~module_ok)

\* --- C15 -----------------------------------------------------------------
\* C15: after an assignment, an arithmetic Binop or a call was checked
\* without error, the right hand side, each operand and each argument is
\* not an lvalue.
C15_CoercedOperandsStayRvalues ==
    (pc = "checked" /\ cur.op \in {"check_stmt", "check_expr"} /\ cur.exc = NoExc /\ diag = <<>>)
       => /\ cur.out.kind = "Assignment" => cur.out.rval.lvalue = False
          /\ (cur.out.kind = "Binop" /\ cur.out.op \in ArithOps) =>
                (cur.out.a.lvalue = False /\ cur.out.b.lvalue = False)
          /\ cur.out.kind = "FunctionCall" =>
                \A j \in DOMAIN cur.out.args : cur.out.args[j].lvalue = False

\* --- C16 -----------------------------------------------------------------
\* C16: no assertion of the checker fails: whatever statement or
\* expression is checked, a Member of a structure constant or an Index of
\* a cast to an array type included, the check does not end with an
\* AssertionError.
C16_AssertionsHold ==
    (pc = "checked" /\ cur.op \in {"check_stmt", "check_expr"}) => cur.exc.cls # "AssertionError"

====
